---------------------------- MODULE Spec2Model ----------------------------
(***************************************************************************)
(* Model of the backtesting ledger (engine.py: Position, Trade,            *)
(* BacktestEngine.execute_trade), of the reversible command layer          *)
(* (patterns/Command_TradeExecution.py: ExecuteOrderCommand,               *)
(* CommandInvoker) and of the signal strategies with their publisher       *)
(* (patterns/Strategy_SignalGen.py, patterns/Observer_SignalNotification.py).*)
(*                                                                         *)
(* Spec runs the ledger and the command layer; SpecInvoker the ledger      *)
(* driven through its CommandInvoker only; SpecStrategy one strategy       *)
(* object fed with ticks; SpecBacktest runs of                             *)
(* BacktestEngine.backtest_strategy on one engine with one strategy;       *)
(* SpecBacktestLong the same with a frame of more than 1000 rows and the   *)
(* fairness of the loop of a run.                                          *)
(* SpecValuation values a ledger with calculate_portfolio_value;           *)
(* SpecUndoOrder adds UndoOrderCommand and direct undo() calls to the      *)
(* ledger; SpecConcurrent lets several callers be inside execute_trade at  *)
(* once.                                                                   *)
(*                                                                         *)
(* Numbers.  Python floats are modelled by exact rationals <<n, d>> with   *)
(* d > 0 in lowest terms; prices and cash are whole numbers of currency    *)
(* units, so only avg_cost and total_cost need a denominator.  Rounding of *)
(* IEEE doubles is not modelled.                                           *)
(***************************************************************************)
EXTENDS Integers, Sequences

---------------------------------------------------------------------------
(* Bounds of the model *)

\* initial_capital handed to BacktestEngine(...)
InitialCapital == 4
\* number of operations called on one engine in a run
MaxOps == 4
\* number of ExecuteOrderCommand objects constructed in a run
MaxCmds == 2
\* largest lookback_window a strategy is constructed with
MaxWindow == 3
\* number of observer objects there are to attach to a publisher
MaxObservers == 2
\* number of rows in the data frames handed to the backtest runs of one
\* engine, all runs together
MaxRows == 3
\* number of backtest_strategy runs on one engine
MaxRuns == 2

Actions == {"BUY", "SELL"}
\* The trade requests a caller submits (prices and quantities are positive):
\* every side, price and quantity for symbol A, and unit orders for symbol B.
Orders ==
    [symbol : {"A"}, action : Actions, price : {1, 3}, quantity : {1, 2}]
    \cup [symbol : {"B"}, action : Actions, price : {1}, quantity : {1}]

---------------------------------------------------------------------------
(* Rational arithmetic standing for Python float arithmetic *)

Abs(x) == IF x < 0 THEN -x ELSE x

RECURSIVE GCD(_, _)
GCD(a, b) == IF b = 0 THEN a ELSE GCD(b, a % b)

\* the pair p = <<n, d>> divided by the greatest common divisor g of n and d
Lowest(p) ==
    CHOOSE r \in {<<p[1] \div g, p[2] \div g>> : g \in {GCD(Abs(p[1]), p[2])}} : TRUE

\* n/d in lowest terms, d > 0 (n and d are evaluated once)
Rat(n, d) == CHOOSE r \in {Lowest(p) : p \in {<<n, d>>}} : TRUE
RZero == <<0, 1>>
RInt(k) == <<k, 1>>
RAdd(x, y) == Rat(x[1] * y[2] + y[1] * x[2], x[2] * y[2])
RMulInt(x, k) == Rat(x[1] * k, x[2])
\* x / k for k > 0
RDivInt(x, k) == Rat(x[1], x[2] * k)
RNeg(x) == <<-x[1], x[2]>>
RSub(x, y) == RAdd(x, RNeg(y))
RMul(x, y) == Rat(x[1] * y[1], x[2] * y[2])
\* x / y for y /= 0
RDiv(x, y) ==
    IF y[1] > 0 THEN Rat(x[1] * y[2], x[2] * y[1])
                ELSE Rat(-(x[1] * y[2]), x[2] * (-y[1]))

\* a faulty variant of RLess: the comparison is not strict
RLessMut(x, y) == x[1] * y[2] <= y[1] * x[2]

\* x < y
RLess(x, y) == x[1] * y[2] < y[1] * x[2]

---------------------------------------------------------------------------
VARIABLES
    cash,           \* BacktestEngine.cash
    positions,      \* BacktestEngine.positions: symbol -> Position, a dict
    trades,         \* BacktestEngine.trades: list of Trade
    commands,       \* every ExecuteOrderCommand constructed so far, by identity
    history,        \* CommandInvoker.history: list of command identities
    current_index,  \* CommandInvoker.current_index
    nops,           \* operations called so far; also the caller's clock
    called,         \* the kinds of operation called so far
    last,           \* record of the last operation: arguments, result, pre-state
    last2,          \* record of the operation before it
    strategy_name,  \* Strategy.strategy_name: which strategy class the object is
    lookback_window, \* Strategy.lookback_window
    threshold,      \* Strategy.threshold, a rational
    price_history,  \* Strategy.price_history: symbol -> list of prices, a dict
    observers,      \* Strategy.publisher.observers: list of observer identities
    sig,            \* record of the last generate_signals call
    fed,            \* symbol -> number of generate_signals calls so far,
                    \* counted up to lookback_window + 1
    recent,         \* symbol -> the last lookback_window prices the caller fed
    extreme_run,    \* symbol -> the current stay of the price at a new extreme
    df,             \* the data frame handed to the current backtest run: list of rows
    run,            \* the current backtest_strategy call: its locals and position
    equity_curve,   \* BacktestEngine.equity_curve: list of (timestamp, value)
    valuation,      \* record of the last calculate_portfolio_value call
    callers,        \* caller -> the execute_trade call it has in flight
    overlapped      \* whether a call ever started while another was in flight

ledgerVars == <<cash, positions, trades, commands, history, current_index,
                nops, called, last, last2>>
strategyVars == <<strategy_name, lookback_window, threshold, price_history,
                  observers, sig, fed, recent, extreme_run>>
backtestVars == <<df, run, equity_curve>>
callVars == <<valuation, callers, overlapped>>
vars == <<ledgerVars, strategyVars, backtestVars, callVars>>

---------------------------------------------------------------------------
(* engine.py *)

\* Position(symbol=symbol): the dataclass defaults
NewPosition == [quantity |-> 0, avg_cost |-> RZero, total_cost |-> RZero]

\* Position.update_position, action == 'BUY'
update_position_buy(pos, price, quantity) ==
    LET new_cost == RAdd(pos.total_cost, RInt(price * quantity))
        q == pos.quantity + quantity
    IN [quantity |-> q,
        total_cost |-> new_cost,
        avg_cost |-> IF q > 0 THEN RDivInt(new_cost, q) ELSE RZero]

\* a faulty variant of update_position_sell: the cost basis is left as it was
update_position_sellMut(pos, quantity) ==
    [quantity |-> pos.quantity - quantity,
     total_cost |-> pos.total_cost,
     avg_cost |-> pos.avg_cost]

\* Position.update_position, action == 'SELL', self.quantity >= quantity
update_position_sell(pos, quantity) ==
    LET q == pos.quantity - quantity
    IN IF q = 0
       THEN [quantity |-> 0, total_cost |-> RZero, avg_cost |-> RZero]
       ELSE [quantity |-> q,
             total_cost |-> RMulInt(pos.avg_cost, q),
             avg_cost |-> pos.avg_cost]

\* Position.update_position: the new position, and whether ValueError is raised
update_position(pos, action, price, quantity) ==
    IF action = "BUY"
    THEN [pos |-> update_position_buy(pos, price, quantity), raised |-> FALSE]
    ELSE IF pos.quantity >= quantity
         THEN [pos |-> update_position_sell(pos, quantity), raised |-> FALSE]
         ELSE [pos |-> pos, raised |-> TRUE]

\* Trade(...): cost is positive for a buy, negative for a sell.  uid is the
\* identity of the Trade object (the number of the operation that made it).
Trade(timestamp, symbol, action, price, quantity, uid) ==
    [timestamp |-> timestamp, symbol |-> symbol, action |-> action,
     price |-> price, quantity |-> quantity,
     cost |-> IF action = "BUY" THEN price * quantity ELSE -(price * quantity),
     uid |-> uid]

\* positions with the entry of symbol set to pos (created when absent)
SetPosition(ps, symbol, pos) ==
    [s \in (DOMAIN ps) \cup {symbol} |-> IF s = symbol THEN pos ELSE ps[s]]

\* a faulty variant of EnoughCash: only asks whether any cash is left
EnoughCashMut(c, cost) == c > 0

\* execute_trade, "Check if enough cash"
EnoughCash(c, cost) == c >= cost

\* a faulty variant of EnoughShares: only asks whether the symbol has a position entry
EnoughSharesMut(ps, symbol, quantity) == symbol \in DOMAIN ps

\* execute_trade, "Check if enough shares"
EnoughShares(ps, symbol, quantity) ==
    symbol \in DOMAIN ps /\ ps[symbol].quantity >= quantity

\* the ledger as one value
Snapshot ==
    [cash |-> cash, positions |-> positions, trades |-> trades,
     history |-> history, current_index |-> current_index,
     commands |-> commands]

\* what is remembered of the operation before an operation
Prior == [op |-> last.op, cmd |-> last.cmd, ret |-> last.ret]

\* the record of an operation
OpRecord(op, cmd, req, ret, raised, events) ==
    [op |-> op, cmd |-> cmd, req |-> req, ret |-> ret, raised |-> raised,
     events |-> events, pre |-> Snapshot, prior |-> Prior]

NoOrder == [symbol |-> "", action |-> "", price |-> 0, quantity |-> 0]

\* the signal_dict of a BUY rejected by execute_trade
InsufficientFunds(o, timestamp) ==
    [timestamp |-> timestamp, symbol |-> o.symbol, price |-> o.price,
     signal_type |-> "INSUFFICIENT_FUNDS",
     required_cash |-> o.price * o.quantity, available_cash |-> cash,
     quantity |-> o.quantity, action |-> o.action]

\* the signal_dict of a SELL rejected by execute_trade
InsufficientPosition(o, timestamp) ==
    [timestamp |-> timestamp, symbol |-> o.symbol, price |-> o.price,
     signal_type |-> "INSUFFICIENT_POSITION",
     available_quantity |->
        IF o.symbol \in DOMAIN positions THEN positions[o.symbol].quantity ELSE 0,
     requested_quantity |-> o.quantity,
     quantity |-> o.quantity, action |-> o.action]

\* BacktestEngine.execute_trade with use_command_pattern=False: the outcome
\* of the call on the current ledger.  The function has no return statement
\* on this path, so the caller receives None.
DirectOutcome(o, timestamp) ==
    LET cost == o.price * o.quantity
        trade == Trade(timestamp, o.symbol, o.action, o.price, o.quantity, nops + 1)
        old == IF o.symbol \in DOMAIN positions THEN positions[o.symbol] ELSE NewPosition
        upd == update_position(old, o.action, o.price, o.quantity)
    IN IF o.action = "BUY"
       THEN IF EnoughCash(cash, cost)
            THEN [cash |-> cash - cost,
                  positions |-> SetPosition(positions, o.symbol, upd.pos),
                  trades |-> Append(trades, trade),
                  events |-> <<>>, raised |-> FALSE, ret |-> "None"]
            ELSE [cash |-> cash, positions |-> positions, trades |-> trades,
                  events |-> <<InsufficientFunds(o, timestamp)>>,
                  raised |-> FALSE, ret |-> "None"]
       ELSE IF EnoughShares(positions, o.symbol, o.quantity)
            THEN IF upd.raised
                 THEN [cash |-> cash + cost, positions |-> positions,
                       trades |-> trades, events |-> <<>>, raised |-> TRUE,
                       ret |-> "None"]
                 ELSE [cash |-> cash + cost,
                       positions |-> SetPosition(positions, o.symbol, upd.pos),
                       trades |-> Append(trades, trade),
                       events |-> <<>>, raised |-> FALSE, ret |-> "None"]
            ELSE [cash |-> cash, positions |-> positions, trades |-> trades,
                  events |-> <<InsufficientPosition(o, timestamp)>>,
                  raised |-> FALSE, ret |-> "None"]

---------------------------------------------------------------------------
(* patterns/Command_TradeExecution.py *)

\* ExecuteOrderCommand.__init__.  trade_uid is the identity of the Trade the
\* command appended at its last successful execute() (0: none).
NewCommand(o, timestamp) ==
    [timestamp |-> timestamp, symbol |-> o.symbol, action |-> o.action,
     price |-> o.price, quantity |-> o.quantity, executed |-> FALSE,
     before_cash |-> 0, before_position_qty |-> 0, before_avg_cost |-> RZero,
     trade_uid |-> 0]

\* a faulty variant of CmdEnoughCash: the whole cash may not be spent
CmdEnoughCashMut(c, cost) == c > cost

\* the BUY check of ExecuteOrderCommand.execute
CmdEnoughCash(c, cost) == c >= cost

\* the SELL check of ExecuteOrderCommand.execute
CmdEnoughShares(ps, symbol, quantity) ==
    symbol \in DOMAIN ps /\ ps[symbol].quantity >= quantity

\* a faulty variant of CaptureBefore: the values set at construction are kept
CaptureBeforeMut(c) == c

\* ExecuteOrderCommand.execute: "Store current state for undo"
CaptureBefore(c) ==
    [c EXCEPT !.before_cash = cash,
              !.before_position_qty =
                  IF c.symbol \in DOMAIN positions
                  THEN positions[c.symbol].quantity ELSE 0,
              !.before_avg_cost =
                  IF c.symbol \in DOMAIN positions
                  THEN positions[c.symbol].avg_cost ELSE RZero]

\* the outcome of a command method that changes nothing but the command
CmdNoChange(c, ok) ==
    [ok |-> ok, cash |-> cash, positions |-> positions, trades |-> trades,
     cmd |-> c, raised |-> FALSE]

\* ExecuteOrderCommand._add_trade
add_trade(c, uid) ==
    Append(trades, Trade(c.timestamp, c.symbol, c.action, c.price, c.quantity, uid))

\* a faulty variant of AlreadyExecuted: the guard is missing
AlreadyExecutedMut(c) == FALSE

\* ExecuteOrderCommand.execute: "if self.executed: return False"
AlreadyExecuted(c) == c.executed

\* ExecuteOrderCommand.execute on the current ledger: the value returned,
\* the ledger and the command afterwards
CmdExecute(c) ==
    IF AlreadyExecuted(c)
    THEN CmdNoChange(c, FALSE)
    ELSE
      LET c1 == CaptureBefore(c)
          cost == c.price * c.quantity
          old == IF c.symbol \in DOMAIN positions
                 THEN positions[c.symbol] ELSE NewPosition
          upd == update_position(old, c.action, c.price, c.quantity)
          done == [c1 EXCEPT !.executed = TRUE, !.trade_uid = nops + 1]
      IN IF c.action = "BUY"
         THEN IF CmdEnoughCash(cash, cost)
              THEN [ok |-> TRUE, cash |-> cash - cost,
                    positions |-> SetPosition(positions, c.symbol, upd.pos),
                    trades |-> add_trade(c, nops + 1),
                    cmd |-> done, raised |-> FALSE]
              ELSE CmdNoChange(c1, FALSE)
         ELSE IF CmdEnoughShares(positions, c.symbol, c.quantity)
              THEN IF upd.raised
                   THEN [ok |-> FALSE, cash |-> cash + cost,
                         positions |-> positions, trades |-> trades,
                         cmd |-> c1, raised |-> TRUE]
                   ELSE [ok |-> TRUE, cash |-> cash + cost,
                         positions |-> SetPosition(positions, c.symbol, upd.pos),
                         trades |-> add_trade(c, nops + 1),
                         cmd |-> done, raised |-> FALSE]
              ELSE CmdNoChange(c1, FALSE)

\* ExecuteOrderCommand.undo, "Reverse the position": the position after it
UndoPosition(pos, action, quantity) ==
    LET q == IF action = "BUY" THEN pos.quantity - quantity
                               ELSE pos.quantity + quantity
    IN IF action = "BUY" /\ q = 0
       THEN [quantity |-> 0, total_cost |-> RZero, avg_cost |-> RZero]
       ELSE [quantity |-> q,
             total_cost |-> RMulInt(pos.avg_cost, q),
             avg_cost |-> pos.avg_cost]

\* a faulty variant of PopTrade: the trade log is left as it was
PopTradeMut(ts) == ts

\* ExecuteOrderCommand.undo, "Remove the trade from history"
PopTrade(ts) == IF ts # <<>> THEN SubSeq(ts, 1, Len(ts) - 1) ELSE ts

\* a faulty variant of NotExecuted: the guard is missing
NotExecutedMut(c) == FALSE

\* ExecuteOrderCommand.undo: "if not self.executed: return False"
NotExecuted(c) == ~c.executed

\* ExecuteOrderCommand.undo on the current ledger
CmdUndo(c) ==
    IF NotExecuted(c)
    THEN CmdNoChange(c, FALSE)
    ELSE [ok |-> TRUE,
          cash |-> IF c.action = "BUY" THEN cash + c.price * c.quantity
                                       ELSE cash - c.price * c.quantity,
          positions |->
              IF c.symbol \in DOMAIN positions
              THEN [positions EXCEPT ![c.symbol] =
                        UndoPosition(positions[c.symbol], c.action, c.quantity)]
              ELSE positions,
          trades |-> PopTrade(trades),
          cmd |-> [c EXCEPT !.executed = FALSE],
          raised |-> FALSE]

\* UndoOrderCommand.execute of a wrapper around the command c:
\* "return self.execute_command.undo()"
UndoOrderExecute(c) == CmdUndo(c)

\* a faulty variant of Truncate: the forward branch is kept
TruncateMut(h, idx) == h

\* CommandInvoker.execute_command: "Remove any commands after current_index"
Truncate(h, idx) == IF idx < Len(h) - 1 THEN SubSeq(h, 1, idx + 1) ELSE h

\* a faulty variant of UndoCursor: the cursor moves back whatever command.undo() returned
UndoCursorMut(idx, ok) == idx - 1

\* CommandInvoker.undo: the cursor moves back only when command.undo() succeeded
UndoCursor(idx, ok) == IF ok THEN idx - 1 ELSE idx

\* CommandInvoker.redo: the cursor advances only when execute() succeeded
RedoCursor(idx, ok) == IF ok THEN idx + 1 ELSE idx

\* Python's bool as the caller sees it
PyBool(b) == IF b THEN "True" ELSE "False"

---------------------------------------------------------------------------
Symbols == {"A", "B"}

\* the record of "no generate_signals call yet"
NoCall ==
    [tick |-> [timestamp |-> 0, symbol |-> "none", price |-> 0],
     nth |-> 0, ret |-> 0, attached |-> <<>>, notified |-> <<>>]

\* a strategy object right after construction, before any tick
NewStrategy ==
    /\ price_history = <<>>
    /\ observers = <<>>
    /\ sig = NoCall
    /\ fed = [s \in Symbols |-> 0]
    /\ recent = [s \in Symbols |-> <<>>]
    /\ extreme_run = [s \in Symbols |-> [n |-> 0, fired |-> FALSE]]

\* the ledger runs take no strategy
NoStrategy ==
    /\ strategy_name = "none"
    /\ lookback_window = 1
    /\ threshold = RZero
    /\ NewStrategy

\* the locals of backtest_strategy while no run has been started
NoRun ==
    [pc |-> "idle", symbol |-> "none", symbol_data |-> <<>>, idx |-> 0,
     signal |-> 0, runs |-> 0, rows_used |-> 0,
     fed_ticks |-> <<>>, attempts |-> <<>>, snapshots |-> <<>>, curve0 |-> 0,
     pre |-> [cash |-> InitialCapital, positions |-> <<>>, trades |-> <<>>]]

\* no backtest run is made
NoBacktest ==
    /\ df = <<>>
    /\ run = NoRun
    /\ equity_curve = <<>>

\* the record of "no calculate_portfolio_value call yet"
NoValuation ==
    [called |-> FALSE, df |-> <<>>, timestamp |-> 0, value |-> 0,
     pre |-> [cash |-> InitialCapital, positions |-> <<>>, trades |-> <<>>,
              history |-> <<>>, current_index |-> -1, commands |-> <<>>]]

MaxCallers == 2
Callers == 1..MaxCallers

\* a caller that has no execute_trade call in flight
IdleCall == [pc |-> "idle", req |-> NoOrder, timestamp |-> 0, loaded |-> 0]

\* no call of the engine outside execute_trade has been made, and no caller
\* is inside execute_trade
NoCalls ==
    /\ valuation = NoValuation
    /\ callers = [t \in Callers |-> IdleCall]
    /\ overlapped = FALSE

LedgerInit ==
    /\ NoCalls
    /\ cash = InitialCapital
    /\ positions = <<>>
    /\ trades = <<>>
    /\ commands = <<>>
    /\ history = <<>>
    /\ current_index = -1
    /\ nops = 0
    /\ called = {}
    /\ last = [op |-> "init", cmd |-> 0, req |-> NoOrder, ret |-> "None",
               raised |-> FALSE, events |-> <<>>,
               pre |-> [cash |-> InitialCapital, positions |-> <<>>,
                        trades |-> <<>>, history |-> <<>>, current_index |-> -1,
                        commands |-> <<>>],
               prior |-> [op |-> "init", cmd |-> 0, ret |-> "None"]]
    /\ last2 = last

Init == LedgerInit /\ NoStrategy /\ NoBacktest

\* execute_trade(timestamp, symbol, action, price, quantity,
\*               use_command_pattern=False)
ExecuteTradeDirect(o) ==
    /\ nops < MaxOps
    /\ LET r == DirectOutcome(o, nops + 1)
       IN /\ cash' = r.cash
          /\ positions' = r.positions
          /\ trades' = r.trades
          /\ last' = OpRecord("execute_trade", 0, o, r.ret, r.raised, r.events)
    /\ last2' = last
    /\ nops' = nops + 1
    /\ UNCHANGED <<strategyVars, backtestVars, callVars>>
    /\ called' = called \cup {"execute_trade"}
    /\ UNCHANGED <<commands, history, current_index>>

\* CommandInvoker.execute_command(command) for the command with identity id,
\* whose state before the call is c
InvokerExecuteCommand(id, c, op, o) ==
    LET r == CmdExecute(c)
        h == Truncate(history, current_index)
    IN /\ cash' = r.cash
       /\ positions' = r.positions
       /\ trades' = r.trades
       /\ commands' = [i \in 1..(IF id > Len(commands) THEN id ELSE Len(commands))
                         |-> IF i = id THEN r.cmd ELSE commands[i]]
       /\ history' = IF r.ok THEN Append(h, id) ELSE h
       /\ current_index' = IF r.ok THEN current_index + 1 ELSE current_index
       /\ last' = OpRecord(op, id, o, PyBool(r.ok), r.raised, <<>>)
       /\ last2' = last
       /\ nops' = nops + 1
       /\ UNCHANGED <<strategyVars, backtestVars, callVars>>

\* execute_trade(timestamp, symbol, action, price, quantity,
\*               use_command_pattern=True): a new ExecuteOrderCommand is
\* constructed and handed to the invoker
ExecuteTradeCommand(o) ==
    /\ nops < MaxOps
    /\ Len(commands) < MaxCmds
    /\ InvokerExecuteCommand(Len(commands) + 1, NewCommand(o, nops + 1),
                             "execute_trade_cmd", o)
    /\ called' = called \cup {"execute_trade_cmd"}

\* CommandInvoker.undo
InvokerUndo ==
    /\ nops < MaxOps
    /\ IF current_index >= 0
       THEN LET id == history[current_index + 1]
                r == CmdUndo(commands[id])
            IN /\ cash' = r.cash
               /\ positions' = r.positions
               /\ trades' = r.trades
               /\ commands' = [commands EXCEPT ![id] = r.cmd]
               /\ current_index' = UndoCursor(current_index, r.ok)
               /\ last' = OpRecord("undo", id, NoOrder, PyBool(r.ok), r.raised, <<>>)
       ELSE /\ UNCHANGED <<cash, positions, trades, commands, current_index>>
            /\ last' = OpRecord("undo", 0, NoOrder, "False", FALSE, <<>>)
    /\ last2' = last
    /\ nops' = nops + 1
    /\ UNCHANGED <<strategyVars, backtestVars, callVars>>
    /\ called' = called \cup {"undo"}
    /\ UNCHANGED history

\* CommandInvoker.redo
InvokerRedo ==
    /\ nops < MaxOps
    /\ IF current_index < Len(history) - 1
       THEN LET id == history[current_index + 2]
                r == CmdExecute(commands[id])
            IN /\ cash' = r.cash
               /\ positions' = r.positions
               /\ trades' = r.trades
               /\ commands' = [commands EXCEPT ![id] = r.cmd]
               /\ current_index' = RedoCursor(current_index, r.ok)
               /\ last' = OpRecord("redo", id, NoOrder, PyBool(r.ok), r.raised, <<>>)
       ELSE /\ UNCHANGED <<cash, positions, trades, commands, current_index>>
            /\ last' = OpRecord("redo", 0, NoOrder, "False", FALSE, <<>>)
    /\ last2' = last
    /\ nops' = nops + 1
    /\ UNCHANGED <<strategyVars, backtestVars, callVars>>
    /\ called' = called \cup {"redo"}
    /\ UNCHANGED history

\* the caller calls execute() of a command it holds, outside the invoker
CommandExecute(id) ==
    /\ nops < MaxOps
    /\ LET r == CmdExecute(commands[id])
       IN /\ cash' = r.cash
          /\ positions' = r.positions
          /\ trades' = r.trades
          /\ commands' = [commands EXCEPT ![id] = r.cmd]
          /\ last' = OpRecord("cmd_execute", id, NoOrder, PyBool(r.ok), r.raised, <<>>)
    /\ last2' = last
    /\ nops' = nops + 1
    /\ UNCHANGED <<strategyVars, backtestVars, callVars>>
    /\ called' = called \cup {"cmd_execute"}
    /\ UNCHANGED <<history, current_index>>

\* the caller calls undo() of a command it holds, outside the invoker
CommandUndo(id) ==
    /\ nops < MaxOps
    /\ LET r == CmdUndo(commands[id])
       IN /\ cash' = r.cash
          /\ positions' = r.positions
          /\ trades' = r.trades
          /\ commands' = [commands EXCEPT ![id] = r.cmd]
          /\ last' = OpRecord("cmd_undo", id, NoOrder, PyBool(r.ok), r.raised, <<>>)
    /\ last2' = last
    /\ nops' = nops + 1
    /\ UNCHANGED <<strategyVars, backtestVars, callVars>>
    /\ called' = called \cup {"cmd_undo"}
    /\ UNCHANGED <<history, current_index>>

Next ==
    \/ \E o \in Orders : ExecuteTradeDirect(o)
    \/ \E o \in Orders : ExecuteTradeCommand(o)
    \/ InvokerUndo
    \/ InvokerRedo
    \/ \E id \in 1..Len(commands) : CommandExecute(id)
    \/ \E id \in 1..Len(commands) : CommandUndo(id)

Spec == Init /\ [][Next]_vars

\* the caller wraps a command it holds in an UndoOrderCommand and calls the
\* wrapper's execute()
UndoOrderCommandExecute(id) ==
    /\ nops < MaxOps
    /\ LET r == UndoOrderExecute(commands[id])
       IN /\ cash' = r.cash
          /\ positions' = r.positions
          /\ trades' = r.trades
          /\ commands' = [commands EXCEPT ![id] = r.cmd]
          /\ last' = OpRecord("undo_order_execute", id, NoOrder, PyBool(r.ok),
                              r.raised, <<>>)
    /\ last2' = last
    /\ nops' = nops + 1
    /\ UNCHANGED <<strategyVars, backtestVars, callVars>>
    /\ called' = called \cup {"undo_order_execute"}
    /\ UNCHANGED <<history, current_index>>

\* a ledger whose caller trades in both modes and undoes commands of its
\* choice, by their undo() or through an UndoOrderCommand
NextUndoOrder ==
    \/ \E o \in Orders : ExecuteTradeDirect(o)
    \/ \E o \in Orders : ExecuteTradeCommand(o)
    \/ \E id \in 1..Len(commands) : CommandUndo(id)
    \/ \E id \in 1..Len(commands) : UndoOrderCommandExecute(id)

SpecUndoOrder == Init /\ [][NextUndoOrder]_vars

\* CommandInvoker.execute_command(command) with a command the caller already
\* holds: one that was rejected, undone, or is still executed
ResubmitCommand(id) ==
    /\ nops < MaxOps
    /\ InvokerExecuteCommand(id, commands[id], "execute_command", NoOrder)
    /\ called' = called \cup {"execute_command"}

\* a ledger driven through its CommandInvoker only
NextInvoker ==
    \/ \E o \in Orders : ExecuteTradeCommand(o)
    \/ \E id \in 1..Len(commands) : ResubmitCommand(id)
    \/ InvokerUndo
    \/ InvokerRedo

SpecInvoker == Init /\ [][NextInvoker]_vars

---------------------------------------------------------------------------
(* patterns/Strategy_SignalGen.py, patterns/Observer_SignalNotification.py *)

StrategyNames == {"MeanReversionStrategy", "BreakoutStrategy"}
\* the thresholds a strategy is constructed with: 0.01 and 1/101
Thresholds == {<<1, 100>>, <<1, 101>>}
\* the ticks a caller feeds (models.MarketDataPoint), prices positive: three
\* price levels at two timestamps for symbol A, one tick for symbol B
Ticks ==
    [timestamp : {1, 2}, symbol : {"A"}, price : {90, 100, 102}]
    \cup [timestamp : {1}, symbol : {"B"}, price : {100}]
\* the observer objects; they are alike, so the caller attaches them in the
\* order of their numbers and detaches the one attached last
Observers == 1..MaxObservers

Min2(a, b) == IF a < b THEN a ELSE b
Range(h) == {h[i] : i \in 1..Len(h)}
\* max(prices), min(prices) of a non-empty list
Max(h) == CHOOSE x \in Range(h) : \A y \in Range(h) : y <= x
Min(h) == CHOOSE x \in Range(h) : \A y \in Range(h) : x <= y

RECURSIVE Sum(_)
Sum(h) == IF h = <<>> THEN 0 ELSE Head(h) + Sum(Tail(h))

\* a faulty variant of LastN: the newest prices are dropped, not the oldest
LastNMut(h, n) == SubSeq(h, 1, Min2(Len(h), n))

\* the slice h[-n:]
LastN(h, n) == SubSeq(h, IF Len(h) > n THEN Len(h) - n + 1 ELSE 1, Len(h))

\* a faulty variant of History: one list is shared by all symbols
HistoryMut(ph, symbol) ==
    IF DOMAIN ph = {} THEN <<>> ELSE ph[CHOOSE s \in DOMAIN ph : TRUE]

\* self.price_history[symbol], the list created on first use
History(ph, symbol) == IF symbol \in DOMAIN ph THEN ph[symbol] ELSE <<>>

\* a faulty variant of ColdStart: the strategy starts one tick early
ColdStartMut(h, w) == Len(h) < w - 1

\* "if len(self.price_history[symbol]) < self.lookback_window: return 0"
ColdStart(h, w) == Len(h) < w

\* MeanReversionStrategy.generate_signals: the signal value from the window
\* h (which ends with the current price)
MeanReversionSignal(h, price, thr) ==
    LET mean_price == Rat(Sum(h), Len(h))
        deviation == RDiv(RSub(RInt(price), mean_price), mean_price)
    IN IF RLess(deviation, RNeg(thr)) THEN 1
       ELSE IF RLess(thr, deviation) THEN -1
       ELSE 0

\* a faulty variant of RecentPrices: the current price is left out of the
\* window it is compared against
RecentPricesMut(h, w) == IF Len(h) > 1 THEN LastN(SubSeq(h, 1, Len(h) - 1), w) ELSE h

\* BreakoutStrategy.generate_signals: recent_prices, taken after the append
RecentPrices(h, w) == LastN(h, w)

\* BreakoutStrategy.generate_signals: the signal value from recent_prices
BreakoutSignal(recent_prices, price, thr) ==
    LET high_price == Max(recent_prices)
        low_price == Min(recent_prices)
        upward_breakout == RMul(RInt(high_price), RAdd(RInt(1), thr))
        downward_breakout == RMul(RInt(low_price), RSub(RInt(1), thr))
    IN IF RLess(upward_breakout, RInt(price)) THEN 1
       ELSE IF RLess(RInt(price), downward_breakout) THEN -1
       ELSE 0

SignalType(signal_value) ==
    IF signal_value = 1 THEN "BUY"
    ELSE IF signal_value = -1 THEN "SELL" ELSE "NO_ACTION"

SignalAction(signal_value) ==
    IF signal_value = 1 THEN "BUY"
    ELSE IF signal_value = -1 THEN "SELL" ELSE "NONE"

\* signal_dict
SignalDict(tick, signal_value, name) ==
    [timestamp |-> tick.timestamp, symbol |-> tick.symbol, price |-> tick.price,
     signal_type |-> SignalType(signal_value), signal_value |-> signal_value,
     strategy_name |-> name, action |-> SignalAction(signal_value)]

\* a faulty variant of Publishes: only BUY signals are published
PublishesMut(signal_value) == signal_value = 1

\* "if signal_value != 0:"
Publishes(signal_value) == signal_value # 0

\* SignalPublisher.notify: the update(signal) calls it makes, in order
notify(obs, signal) ==
    [i \in 1..Len(obs) |-> [observer |-> obs[i], signal |-> signal]]

\* the stay of a symbol's price at a new extreme, after a call with this
\* price that returned ret.  A price is a new extreme when the window before
\* it was full and it lies beyond that window's high * (1 + threshold) or
\* low * (1 - threshold); the stay lasts while the same price is fed again.
\* n counts its ticks up to max(lookback_window, 2); fired tells whether a
\* call of the stay returned BUY or SELL.
ExtremeRun(stay, prev, full, price, ret) ==
    LET cap == IF lookback_window > 2 THEN lookback_window ELSE 2
        new_extreme ==
            /\ full
            /\ \/ RLess(RMul(RInt(Max(prev)), RAdd(RInt(1), threshold)), RInt(price))
               \/ RLess(RInt(price), RMul(RInt(Min(prev)), RSub(RInt(1), threshold)))
    IN IF stay.n >= 1 /\ price = prev[Len(prev)]
       THEN [n |-> Min2(stay.n + 1, cap), fired |-> stay.fired \/ ret # 0]
       ELSE IF new_extreme THEN [n |-> 1, fired |-> ret # 0]
       ELSE [n |-> 0, fired |-> FALSE]

\* what one generate_signals(tick) call leaves behind in the strategy: the
\* stored history h of the tick's symbol, the returned signal_value, the
\* notifications made
StrategyUpdate(tick, h, signal_value) ==
    LET symbol == tick.symbol
    IN /\ price_history' = [s \in DOMAIN price_history \cup {symbol} |->
                               IF s = symbol THEN h ELSE price_history[s]]
       /\ sig' = [tick |-> tick,
                  nth |-> Min2(fed[symbol] + 1, lookback_window + 1),
                  ret |-> signal_value,
                  attached |-> observers,
                  notified |-> IF Publishes(signal_value)
                               THEN notify(observers,
                                           SignalDict(tick, signal_value, strategy_name))
                               ELSE <<>>]
       /\ fed' = [fed EXCEPT ![symbol] = Min2(@ + 1, lookback_window + 1)]
       /\ recent' = [recent EXCEPT ![symbol] =
                        IF Len(@) < lookback_window THEN Append(@, tick.price)
                        ELSE Append(Tail(@), tick.price)]
       /\ extreme_run' = [extreme_run EXCEPT ![symbol] =
                             ExtremeRun(@, recent[symbol], fed[symbol] >= lookback_window,
                                        tick.price, signal_value)]
       /\ UNCHANGED <<strategy_name, lookback_window, threshold, observers>>

\* the body of MeanReversionStrategy.generate_signals(tick)
MeanReversionCall(tick) ==
    LET h == Append(History(price_history, tick.symbol), tick.price)
    IN IF ColdStart(h, lookback_window)
       THEN StrategyUpdate(tick, h, 0)
       ELSE LET window == LastN(h, lookback_window)
            IN StrategyUpdate(tick, window,
                              MeanReversionSignal(window, tick.price, threshold))

\* the body of BreakoutStrategy.generate_signals(tick)
BreakoutCall(tick) ==
    LET h == Append(History(price_history, tick.symbol), tick.price)
    IN IF ColdStart(h, lookback_window)
       THEN StrategyUpdate(tick, h, 0)
       ELSE LET recent_prices == RecentPrices(h, lookback_window)
            IN StrategyUpdate(tick, recent_prices,
                              BreakoutSignal(recent_prices, tick.price, threshold))

\* a caller calls MeanReversionStrategy.generate_signals(tick)
MeanReversionGenerateSignals(tick) ==
    /\ strategy_name = "MeanReversionStrategy"
    /\ MeanReversionCall(tick)
    /\ UNCHANGED <<ledgerVars, backtestVars, callVars>>

\* a caller calls BreakoutStrategy.generate_signals(tick)
BreakoutGenerateSignals(tick) ==
    /\ strategy_name = "BreakoutStrategy"
    /\ BreakoutCall(tick)
    /\ UNCHANGED <<ledgerVars, backtestVars, callVars>>

\* SignalPublisher.attach(observer)
attach(obs, o) == IF o \in Range(obs) THEN obs ELSE Append(obs, o)

\* SignalPublisher.detach(observer); list.remove on a list that holds the
\* observer once
detach(obs, o) ==
    IF o \in Range(obs) THEN SelectSeq(obs, LAMBDA x : x # o) ELSE obs

\* the caller attaches an observer to the strategy's publisher
Attach(o) ==
    /\ o <= Len(observers) + 1
    /\ observers' = attach(observers, o)
    /\ UNCHANGED <<strategy_name, lookback_window, threshold, price_history,
                   sig, fed, recent, extreme_run>>
    /\ UNCHANGED <<ledgerVars, backtestVars, callVars>>

\* the caller detaches an observer from the strategy's publisher
Detach(o) ==
    /\ o >= Len(observers)
    /\ observers' = detach(observers, o)
    /\ UNCHANGED <<strategy_name, lookback_window, threshold, price_history,
                   sig, fed, recent, extreme_run>>
    /\ UNCHANGED <<ledgerVars, backtestVars, callVars>>

\* a MeanReversionStrategy or BreakoutStrategy constructed with a
\* lookback_window and a threshold, its publisher without observers
InitStrategy ==
    /\ LedgerInit
    /\ strategy_name \in StrategyNames
    /\ lookback_window \in 1..MaxWindow
    /\ threshold \in Thresholds
    /\ NewStrategy
    /\ NoBacktest

NextStrategy ==
    \/ \E tick \in Ticks : MeanReversionGenerateSignals(tick)
    \/ \E tick \in Ticks : BreakoutGenerateSignals(tick)
    \/ \E o \in Observers : Attach(o)
    \/ \E o \in Observers : Detach(o)

SpecStrategy == InitStrategy /\ [][NextStrategy]_vars

---------------------------------------------------------------------------
(* engine.py: BacktestEngine.backtest_strategy *)

\* "if idx % 1000 == 0": the period of the equity-curve snapshots
SnapshotEvery == 1000

\* the rows of the data frames handed to backtest_strategy (timestamp,
\* symbol, price): two timestamps and two prices for symbol A, one row for B
Rows ==
    [timestamp : {1, 2}, symbol : {"A"}, price : {1, 3}]
    \cup [timestamp : {1}, symbol : {"B"}, price : {1}]

\* the data frames of at most n rows, in any order and with repeated rows
Frames(n) == UNION {[1..k -> Rows] : k \in 0..n}

\* a faulty variant of SortedOrders: the rows keep the order of the frame
SortedOrdersMut(rows) == {rows}

\* sort_values('timestamp'): every arrangement of the rows in non-decreasing
\* timestamp order (the order of rows of equal timestamp is not fixed by the
\* sort; rows of strictly increasing timestamps have one arrangement)
SortedOrders(rows) ==
    LET n == Len(rows)
    IN IF \A i \in 1..(n - 1) : rows[i].timestamp < rows[i + 1].timestamp
       THEN {rows}
       ELSE {[i \in 1..n |-> rows[q[i]]] :
                q \in {r \in [1..n -> 1..n] :
                         /\ \A i, j \in 1..n : (i # j) => (r[i] # r[j])
                         /\ \A i \in 1..(n - 1) :
                               rows[r[i]].timestamp <= rows[r[i + 1]].timestamp}}

\* BacktestEngine.get_symbol_data: the possible values of symbol_data
get_symbol_data(frame, symbol) ==
    SortedOrders(SelectSeq(frame, LAMBDA row : row.symbol = symbol))

\* BacktestEngine.create_data_point
create_data_point(row) ==
    [timestamp |-> row.timestamp, symbol |-> row.symbol, price |-> row.price]

\* BacktestEngine.reset_positions_for_symbol
reset_positions_for_symbol(ps, symbol) ==
    [s \in DOMAIN ps \ {symbol} |-> ps[s]]

\* a faulty variant of current_data: the timestamp is not looked at
current_dataMut(frame, symbol, timestamp) ==
    SelectSeq(frame, LAMBDA row : row.symbol = symbol)

\* "current_data = df[(df['symbol'] == symbol) & (df['timestamp'] == timestamp)]"
current_data(frame, symbol, timestamp) ==
    SelectSeq(frame, LAMBDA row : row.symbol = symbol /\ row.timestamp = timestamp)

RECURSIVE SumValues(_, _, _, _)
\* the sum over the position entries of quantity * price, the price being
\* that of the first row of the frame with the entry's symbol and the
\* timestamp; an entry without such a row adds nothing
SumValues(symbols, ps, frame, timestamp) ==
    IF symbols = {} THEN 0
    ELSE LET symbol == CHOOSE x \in symbols : TRUE
             rows == current_data(frame, symbol, timestamp)
         IN (IF rows # <<>>
             THEN ps[symbol].quantity * rows[1].price ELSE 0)
            + SumValues(symbols \ {symbol}, ps, frame, timestamp)

\* BacktestEngine.calculate_portfolio_value
calculate_portfolio_value(frame, timestamp) ==
    cash + SumValues(DOMAIN positions, positions, frame, timestamp)

\* a faulty variant of RecordsSnapshot: every tick is recorded
RecordsSnapshotMut(idx, n) == idx % 1 = 0 \/ idx = n - 1

\* "if idx % 1000 == 0 or idx == len(symbol_data) - 1"
RecordsSnapshot(idx, n) == idx % SnapshotEvery = 0 \/ idx = n - 1

\* a faulty variant of TradeQuantity: two units are traded per signal
TradeQuantityMut(signal) == 2

\* the quantity=1 of the execute_trade calls of backtest_strategy
TradeQuantity(signal) == 1

\* the tick the loop of backtest_strategy is at
CurrentTick == create_data_point(run.symbol_data[run.idx + 1])

\* backtest_strategy(strategy, symbol, df) up to the loop: symbol_data is
\* computed and the symbol's position entry is reset
StartBacktest(symbol, frame) ==
    /\ run.pc \in {"idle", "done"}
    /\ run.runs < MaxRuns
    /\ \E symbol_data \in get_symbol_data(frame, symbol) :
          run' = [pc |-> IF symbol_data = <<>> THEN "done" ELSE "feed",
                  symbol |-> symbol, symbol_data |-> symbol_data, idx |-> 0,
                  signal |-> 0, runs |-> run.runs + 1,
                  rows_used |-> run.rows_used + Len(frame),
                  fed_ticks |-> <<>>, attempts |-> <<>>, snapshots |-> <<>>,
                  curve0 |-> Len(equity_curve),
                  pre |-> [cash |-> cash,
                           positions |-> positions, trades |-> trades]]
    /\ df' = frame
    /\ positions' = reset_positions_for_symbol(positions, symbol)
    /\ UNCHANGED <<cash, trades, commands, history, current_index,
                   nops, called, last, last2>>
    /\ UNCHANGED <<strategyVars, equity_curve, callVars>>

\* the loop body, first part: "signal = strategy.generate_signals(tick)"
BacktestFeed ==
    /\ run.pc = "feed"
    /\ IF strategy_name = "MeanReversionStrategy"
       THEN MeanReversionCall(CurrentTick)
       ELSE BreakoutCall(CurrentTick)
    /\ run' = [run EXCEPT !.pc = "trade",
                          !.signal = sig'.ret,
                          !.fed_ticks = Append(@, CurrentTick),
                          !.attempts = <<>>,
                          !.pre = [cash |-> cash, positions |-> positions,
                                   trades |-> trades]]
    /\ UNCHANGED <<ledgerVars, df, equity_curve, callVars>>

\* the loop body, second part: "if signal == 1: self.execute_trade(...)
\* elif signal == -1: self.execute_trade(...)"
BacktestTrade ==
    /\ run.pc = "trade"
    /\ IF run.signal \in {1, -1}
       THEN LET o == [symbol |-> run.symbol,
                      action |-> IF run.signal = 1 THEN "BUY" ELSE "SELL",
                      price |-> CurrentTick.price,
                      quantity |-> TradeQuantity(run.signal)]
                r == DirectOutcome(o, CurrentTick.timestamp)
            IN /\ cash' = r.cash
               /\ positions' = r.positions
               /\ trades' = r.trades
               /\ nops' = nops + 1
               /\ run' = [run EXCEPT !.pc = "snapshot",
                             !.attempts = Append(@, [timestamp |-> CurrentTick.timestamp,
                                                     order |-> o, events |-> r.events])]
       ELSE /\ UNCHANGED <<cash, positions, trades, nops>>
            /\ run' = [run EXCEPT !.pc = "snapshot"]
    /\ UNCHANGED <<commands, history, current_index, called, last, last2>>
    /\ UNCHANGED <<strategyVars, df, equity_curve, callVars>>

\* the loop body, last part: the equity-curve snapshot; then the next tick,
\* or the end of the loop and print_results
BacktestSnapshot ==
    /\ run.pc = "snapshot"
    /\ LET n == Len(run.symbol_data)
           records == RecordsSnapshot(run.idx, n)
       IN /\ equity_curve' =
                IF records
                THEN Append(equity_curve,
                            [timestamp |-> CurrentTick.timestamp,
                             portfolio_value |->
                                 calculate_portfolio_value(df, CurrentTick.timestamp)])
                ELSE equity_curve
          /\ run' = [run EXCEPT !.pc = IF run.idx + 1 < n THEN "feed" ELSE "done",
                                !.idx = @ + 1,
                                !.snapshots = IF records THEN Append(@, run.idx) ELSE @]
    /\ UNCHANGED <<ledgerVars, strategyVars, df, callVars>>

\* a fresh engine and a fresh strategy without observers, of threshold 0.01
InitBacktest ==
    /\ LedgerInit
    /\ strategy_name \in StrategyNames
    /\ lookback_window \in 1..MaxWindow
    /\ threshold = <<1, 100>>
    /\ NewStrategy
    /\ NoBacktest

NextBacktest ==
    \/ \E symbol \in Symbols :
          \E frame \in Frames(MaxRows - run.rows_used) : StartBacktest(symbol, frame)
    \/ BacktestFeed
    \/ BacktestTrade
    \/ BacktestSnapshot

SpecBacktest == InitBacktest /\ [][NextBacktest]_vars

\* a caller calls calculate_portfolio_value(df, timestamp) on the engine
CalculatePortfolioValue(frame, timestamp) ==
    /\ valuation' = [called |-> TRUE, df |-> frame, timestamp |-> timestamp,
                     value |-> calculate_portfolio_value(frame, timestamp),
                     pre |-> Snapshot]
    /\ UNCHANGED <<ledgerVars, strategyVars, backtestVars, callers, overlapped>>

\* the frames a caller values the portfolio with have at most MaxValued rows
MaxValued == 2

\* an engine whose caller trades directly and then values, once, the
\* portfolio it has built
NextValuation ==
    \/ /\ ~valuation.called
       /\ \E o \in Orders : ExecuteTradeDirect(o)
    \/ /\ ~valuation.called
       /\ \E frame \in Frames(MaxValued) :
             \E timestamp \in {1, 2} : CalculatePortfolioValue(frame, timestamp)

SpecValuation == Init /\ [][NextValuation]_vars

\* the number of rows of the long frame: the ticks 0, 1000 and 1001 of its
\* run are those of the equity curve
LongRows == 1002

\* a frame of LongRows rows of symbol A, one per timestamp, the price
\* alternating between 3 and 1
LongFrame ==
    [i \in 1..LongRows |->
        [timestamp |-> i, symbol |-> "A", price |-> IF i % 2 = 1 THEN 3 ELSE 1]]

\* the run over the long frame, on a fresh engine
StartLongBacktest ==
    /\ run.pc = "idle"
    /\ StartBacktest("A", LongFrame)

\* the steps of the loop of backtest_strategy
BacktestStep == BacktestFeed \/ BacktestTrade \/ BacktestSnapshot

NextBacktestLong ==
    \/ \E symbol \in Symbols :
          \E frame \in Frames(MaxRows - run.rows_used) : StartBacktest(symbol, frame)
    \/ StartLongBacktest
    \/ BacktestFeed
    \/ BacktestTrade
    \/ BacktestSnapshot

\* backtest_strategy is one synchronous call: once started, its loop keeps
\* stepping until the data is exhausted
SpecBacktestLong ==
    InitBacktest /\ [][NextBacktestLong]_vars /\ WF_vars(BacktestStep)

---------------------------------------------------------------------------
(* engine.py: execute_trade entered by several callers.  The function takes
   no lock; its reads and writes of self.cash, self.positions and
   self.trades are separate steps that other callers' steps may come
   between.  `self.cash -= cost` is a load of self.cash followed by a store. *)

\* a faulty variant of Debit: the cost is taken from the initial capital
DebitMut(loaded, cost) == InitialCapital - cost

\* the value `self.cash -= cost` stores, loaded being the self.cash it read
Debit(loaded, cost) == loaded - cost

\* the value `self.cash += cost` stores
Credit(loaded, cost) == loaded + cost

\* some caller other than t is inside execute_trade
OthersInFlight(t) == \E u \in Callers \ {t} : callers[u].pc # "idle"

\* caller t enters execute_trade(timestamp, symbol, action, price, quantity)
\* and evaluates `self.cash >= cost` or the SELL condition; a refused
\* request notifies and returns at once
CallCheck(t, o) ==
    /\ callers[t].pc = "idle"
    /\ nops < MaxOps
    /\ LET passes == IF o.action = "BUY"
                     THEN EnoughCash(cash, o.price * o.quantity)
                     ELSE EnoughShares(positions, o.symbol, o.quantity)
       IN callers' = [callers EXCEPT ![t] =
                         IF passes
                         THEN [pc |-> "checked", req |-> o,
                               timestamp |-> nops + 1, loaded |-> 0]
                         ELSE IdleCall]
    /\ overlapped' = (overlapped \/ OthersInFlight(t))
    /\ nops' = nops + 1
    /\ called' = called \cup {"execute_trade"}
    /\ UNCHANGED <<cash, positions, trades, commands, history, current_index,
                   last, last2, valuation>>
    /\ UNCHANGED <<strategyVars, backtestVars>>

\* caller t loads self.cash for `self.cash -= cost` / `self.cash += cost`
CallLoad(t) ==
    /\ callers[t].pc = "checked"
    /\ callers' = [callers EXCEPT ![t].pc = "loaded", ![t].loaded = cash]
    /\ UNCHANGED <<ledgerVars, strategyVars, backtestVars, valuation, overlapped>>

\* caller t stores the new self.cash
CallStore(t) ==
    /\ callers[t].pc = "loaded"
    /\ LET c == callers[t]
           cost == c.req.price * c.req.quantity
       IN cash' = IF c.req.action = "BUY" THEN Debit(c.loaded, cost)
                  ELSE Credit(c.loaded, cost)
    /\ callers' = [callers EXCEPT ![t].pc = "stored", ![t].loaded = 0]
    /\ UNCHANGED <<positions, trades, commands, history, current_index, nops,
                   called, last, last2, valuation, overlapped>>
    /\ UNCHANGED <<strategyVars, backtestVars>>

\* caller t creates the position entry if absent, calls update_position and
\* appends the trade; a ValueError of update_position ends the call before
\* the append
CallFinish(t) ==
    /\ callers[t].pc = "stored"
    /\ LET c == callers[t]
           o == c.req
           old == IF o.symbol \in DOMAIN positions THEN positions[o.symbol]
                  ELSE NewPosition
           upd == update_position(old, o.action, o.price, o.quantity)
       IN IF upd.raised
          THEN UNCHANGED <<positions, trades>>
          ELSE /\ positions' = SetPosition(positions, o.symbol, upd.pos)
               /\ trades' = Append(trades, Trade(c.timestamp, o.symbol, o.action,
                                                 o.price, o.quantity, c.timestamp))
    /\ callers' = [callers EXCEPT ![t] = IdleCall]
    /\ UNCHANGED <<cash, commands, history, current_index, nops, called,
                   last, last2, valuation, overlapped>>
    /\ UNCHANGED <<strategyVars, backtestVars>>

NextConcurrent ==
    \/ \E t \in Callers : \E o \in Orders : CallCheck(t, o)
    \/ \E t \in Callers : CallLoad(t)
    \/ \E t \in Callers : CallStore(t)
    \/ \E t \in Callers : CallFinish(t)

\* an engine whose execute_trade is called by MaxCallers callers that do
\* not wait for one another
SpecConcurrent == Init /\ [][NextConcurrent]_vars

---------------------------------------------------------------------------
(* Vocabulary of the properties *)

TradeOps == {"execute_trade", "execute_trade_cmd"}
EngineOps == TradeOps \cup {"undo", "redo"}

\* the position of a symbol, an absent entry counting as a zero position
PositionOf(ps, symbol) == IF symbol \in DOMAIN ps THEN ps[symbol] ELSE NewPosition

\* a trade log without the identities of its Trade objects
TradeFields(ts) ==
    [i \in 1..Len(ts) |->
        [timestamp |-> ts[i].timestamp, symbol |-> ts[i].symbol,
         action |-> ts[i].action, price |-> ts[i].price,
         quantity |-> ts[i].quantity, cost |-> ts[i].cost]]

\* operation r ran execute() of a command and it returned True
ExecSucceeded(r) ==
    /\ r.op \in {"execute_trade_cmd", "execute_command", "redo", "cmd_execute"}
    /\ r.ret = "True"

\* operation r ran undo() of a command and it returned True
UndoSucceeded(r) == r.op \in {"undo", "cmd_undo"} /\ r.ret = "True"

\* operation r is an execute_trade call that the business rules reject:
\* a BUY dearer than the cash, a SELL of more than is held
MustReject(r) ==
    /\ r.op \in TradeOps
    /\ \/ r.req.action = "BUY" /\ r.pre.cash < r.req.price * r.req.quantity
       \/ r.req.action = "SELL"
          /\ PositionOf(r.pre.positions, r.req.symbol).quantity < r.req.quantity

\* the ledger (cash, positions, trade log) is as it was before operation r
LedgerUnchangedSince(r) ==
    cash = r.pre.cash /\ positions = r.pre.positions /\ trades = r.pre.trades

\* operation r applied its trade: cash moved by the cost, the position by the
\* quantity, and one Trade was appended
TradeApplied(r) ==
    LET cost == r.req.price * r.req.quantity
        sign == IF r.req.action = "BUY" THEN 1 ELSE -1
    IN /\ cash = r.pre.cash - sign * cost
       /\ PositionOf(positions, r.req.symbol).quantity =
            PositionOf(r.pre.positions, r.req.symbol).quantity + sign * r.req.quantity
       /\ Len(trades) = Len(r.pre.trades) + 1

NonNegative ==
    cash >= 0 /\ \A s \in DOMAIN positions : positions[s].quantity >= 0

---------------------------------------------------------------------------
\* C1: whenever execute() of a command succeeded and undo() of the same
\* command is called right after it and succeeds, cash, the position of the
\* command's symbol (quantity, avg_cost, total_cost; an absent entry counts
\* as a zero position) and the length of the trade log are what they were
\* just before the execute().
C1_UndoRestoresPreExecuteState ==
    (ExecSucceeded(last2) /\ UndoSucceeded(last) /\ last.cmd = last2.cmd) =>
        LET symbol == commands[last.cmd].symbol
            before == last2.pre
        IN /\ cash = before.cash
           /\ PositionOf(positions, symbol) = PositionOf(before.positions, symbol)
           /\ Len(trades) = Len(before.trades)

\* C2: a command executed through execute_command, then CommandInvoker.undo(),
\* then CommandInvoker.redo() with nothing in between: the ledger (cash,
\* positions, trade log) and the cursor are those right after the execute.
C2_UndoRedoReproducesPostState ==
    (/\ last2.prior.op = "execute_trade_cmd" /\ last2.prior.ret = "True"
     /\ last2.op = "undo" /\ last2.ret = "True" /\ last2.cmd = last2.prior.cmd
     /\ last.op = "redo" /\ last.ret = "True" /\ last.cmd = last2.cmd) =>
        /\ cash = last2.pre.cash
        /\ positions = last2.pre.positions
        /\ TradeFields(trades) = TradeFields(last2.pre.trades)
        /\ current_index = last2.pre.current_index

\* C3: as long as only execute_trade has been called (direct mode or
\* command-pattern mode), cash is not negative and no position quantity is
\* below zero.
C3_TradesKeepNonNegative == (called \subseteq TradeOps) => NonNegative

\* C3 witness: both modes were used, the cash was spent to the last unit and
\* a BUY that would have overdrawn it was refused.
C3_Witness ==
    /\ called = TradeOps
    /\ cash = 0
    /\ last.req.action = "BUY"
    /\ MustReject(last)

\* C4: cash >= 0 and every position quantity >= 0 in every state reached by
\* execute_trade calls (both modes) and CommandInvoker.undo()/redo().
C4_AlwaysNonNegative == (called \subseteq EngineOps) => NonNegative

\* C5: a rejected execute_trade (a BUY dearer than the cash, a SELL of more
\* than is held, a SELL of a symbol without a position), in either mode,
\* leaves cash, the positions mapping and the trade log as they were and
\* raises no exception.
C5_RejectionChangesNothing ==
    MustReject(last) => (LedgerUnchangedSince(last) /\ ~last.raised)

\* C5 witness: a SELL of a symbol that has no position entry was rejected in
\* command-pattern mode, after the ledger had already traded.
C5_Witness ==
    /\ MustReject(last)
    /\ last.op = "execute_trade_cmd"
    /\ last.req.action = "SELL"
    /\ last.req.symbol \notin DOMAIN last.pre.positions
    /\ last.pre.trades # <<>>

\* C6: every rejected execute_trade, in either mode, notifies exactly one
\* event: INSUFFICIENT_FUNDS with the required and the available cash for a
\* BUY, INSUFFICIENT_POSITION with the available and the requested quantity
\* for a SELL.
C6_RejectionNotifiesEvent ==
    MustReject(last) =>
        /\ Len(last.events) = 1
        /\ IF last.req.action = "BUY"
           THEN /\ last.events[1].signal_type = "INSUFFICIENT_FUNDS"
                /\ last.events[1].required_cash = last.req.price * last.req.quantity
                /\ last.events[1].available_cash = last.pre.cash
           ELSE /\ last.events[1].signal_type = "INSUFFICIENT_POSITION"
                /\ last.events[1].available_quantity =
                     PositionOf(last.pre.positions, last.req.symbol).quantity
                /\ last.events[1].requested_quantity = last.req.quantity

\* C7: execute_trade returns a success value exactly when the trade was
\* applied and a failure value exactly when it was rejected, in both modes.
C7_ReturnValueReportsOutcome ==
    (last.op \in TradeOps) =>
        /\ last.ret = "True" <=> TradeApplied(last)
        /\ last.ret = "False" <=> MustReject(last)

\* C8: under execute_trade calls (both modes) and CommandInvoker.undo()/redo(),
\* the trade log only grows at its end or loses its last Trade, it loses one
\* only in an undo, and the Trade an undo pops is the one the undone command
\* appended.
C8_UndoPopsItsOwnTrade ==
    (called \subseteq EngineOps) =>
        /\ \/ trades = last.pre.trades
           \/ Len(trades) = Len(last.pre.trades) + 1
              /\ SubSeq(trades, 1, Len(last.pre.trades)) = last.pre.trades
           \/ last.op = "undo"
              /\ Len(last.pre.trades) > 0
              /\ trades = SubSeq(last.pre.trades, 1, Len(last.pre.trades) - 1)
        /\ (last.op = "undo" /\ last.ret = "True") =>
              /\ Len(last.pre.trades) = Len(trades) + 1
              /\ last.pre.trades[Len(last.pre.trades)].uid = commands[last.cmd].trade_uid

\* C9: when CommandInvoker.undo() succeeded and a new command is applied by
\* execute_command right after it, the history holds no command beyond the
\* cursor and no longer holds the undone command; and a redo() called next
\* returns failure.
C9_NewExecutionDiscardsRedo ==
    /\ (last2.op = "undo" /\ last2.ret = "True"
        /\ last.op = "execute_trade_cmd" /\ last.ret = "True") =>
            /\ current_index = Len(history) - 1
            /\ \A i \in 1..Len(history) : history[i] # last2.cmd
    /\ (last2.prior.op = "undo" /\ last2.prior.ret = "True"
        /\ last2.op = "execute_trade_cmd" /\ last2.ret = "True"
        /\ last.op = "redo") =>
            last.ret = "False"

\* C9 witness: undo, a new command applied, then the redo that is refused.
C9_Witness ==
    /\ last2.prior.op = "undo" /\ last2.prior.ret = "True"
    /\ last2.op = "execute_trade_cmd" /\ last2.ret = "True"
    /\ last.op = "redo" /\ last.ret = "False"
    /\ last2.prior.cmd \notin {history[i] : i \in 1..Len(history)}

\* C10: CommandInvoker.undo() with the cursor at -1 and redo() with the cursor
\* at the last slot return failure; an undo() or redo() that returns failure
\* leaves the cursor, the history, cash, positions and the trade log as they
\* were; one that returns success moves the cursor by exactly one slot and
\* keeps the history.
C10_FailedUndoRedoChangeNothing ==
    (last.op \in {"undo", "redo"}) =>
        /\ (last.op = "undo" /\ last.pre.current_index = -1) => last.ret = "False"
        /\ (last.op = "redo" /\ last.pre.current_index = Len(last.pre.history) - 1)
              => last.ret = "False"
        /\ last.ret = "False" =>
              /\ LedgerUnchangedSince(last)
              /\ history = last.pre.history
              /\ current_index = last.pre.current_index
        /\ last.ret = "True" =>
              /\ history = last.pre.history
              /\ current_index =
                   last.pre.current_index + (IF last.op = "undo" THEN -1 ELSE 1)

\* C10 witness: an undo() refused because the command at the cursor reported
\* failure (it had been undone by the caller), not because of the boundary.
C10_Witness ==
    /\ last.op = "undo" /\ last.ret = "False"
    /\ last.pre.current_index >= 0
    /\ ~commands[last.cmd].executed

---------------------------------------------------------------------------
\* the command an operation acted on, as it was before the operation
\* (operations of commands that existed before the call)
ActedOnExisting(r) ==
    r.op \in {"redo", "undo", "cmd_execute", "cmd_undo"} /\ r.cmd >= 1

\* C11: execute() of a command that is already executed (no undo since its
\* last successful execute) returns failure and leaves cash, positions, the
\* trade log and the command itself (captured snapshot, executed flag) as
\* they were.
C11_ExecuteTwiceIsRefused ==
    (/\ ActedOnExisting(last)
     /\ last.op \in {"redo", "cmd_execute"}
     /\ last.pre.commands[last.cmd].executed) =>
        /\ last.ret = "False"
        /\ LedgerUnchangedSince(last)
        /\ commands[last.cmd] = last.pre.commands[last.cmd]

\* C11 witness: execute() called on a command right after its own successful
\* execute() was refused.
C11_Witness ==
    /\ ExecSucceeded(last2)
    /\ last.op = "cmd_execute" /\ last.cmd = last2.cmd
    /\ last.ret = "False"
    /\ commands[last.cmd].executed

\* C12: undo() of a command that is not executed (its execute() was rejected,
\* or it was already undone) returns failure and leaves cash, positions and
\* the trade log as they were; so of two undo() calls in a row on one command
\* the second returns failure.
C12_UndoOfUnexecutedIsRefused ==
    /\ (/\ ActedOnExisting(last)
        /\ last.op \in {"undo", "cmd_undo"}
        /\ ~last.pre.commands[last.cmd].executed) =>
            (last.ret = "False" /\ LedgerUnchangedSince(last))
    /\ (/\ UndoSucceeded(last2)
        /\ last.op \in {"undo", "cmd_undo"}
        /\ last.cmd = last2.cmd) =>
            last.ret = "False"

\* C12 witness: a command undone, then undo() called on it again and refused.
C12_Witness ==
    /\ UndoSucceeded(last2)
    /\ last.op = "cmd_undo" /\ last.cmd = last2.cmd
    /\ last.ret = "False"

\* C13: in every state reached by execute_trade calls (both modes, accepted
\* or rejected) and CommandInvoker.undo()/redo(), each position has
\* total_cost = avg_cost * quantity when its quantity is positive, and
\* avg_cost = 0 and total_cost = 0 when its quantity is 0.
C13_PositionCostInvariant ==
    (called \subseteq EngineOps) =>
        \A s \in DOMAIN positions :
            /\ positions[s].quantity > 0 =>
                 positions[s].total_cost =
                    RMulInt(positions[s].avg_cost, positions[s].quantity)
            /\ positions[s].quantity = 0 =>
                 (positions[s].avg_cost = RZero /\ positions[s].total_cost = RZero)

\* the last operation was a generate_signals call of the named strategy that
\* came after the cold start of its symbol
CalledPastColdStart(name) ==
    /\ strategy_name = name
    /\ sig.nth >= lookback_window

\* the last lookback_window prices fed for the symbol of the last call
FedWindow == recent[sig.tick.symbol]

\* C14: for both strategies and every symbol, each of the first
\* lookback_window - 1 generate_signals calls for the symbol returns HOLD (0)
\* and publishes no signal event, whatever the prices.
C14_ColdStartHolds ==
    (sig.nth >= 1 /\ sig.nth < lookback_window) =>
        (sig.ret = 0 /\ sig.notified = <<>>)

\* C14 witness: the second call of a MeanReversionStrategy of window 3 with an
\* observer attached, fed 100 and then 90, returned HOLD.
C14_Witness ==
    /\ strategy_name = "MeanReversionStrategy" /\ lookback_window = 3
    /\ sig.nth = 2 /\ sig.tick.symbol = "A"
    /\ recent["A"] = <<100, 90>>
    /\ sig.attached # <<>>
    /\ sig.ret = 0

\* C15: once a symbol has received at least lookback_window prices,
\* MeanReversionStrategy.generate_signals returns BUY when
\* (price - mean)/mean < -threshold, SELL when (price - mean)/mean > threshold
\* and HOLD otherwise (so also when the deviation equals the threshold), mean
\* being the mean of the last lookback_window prices fed, the current one
\* included.  With sum S of the w prices and threshold n/d the deviation is
\* (w*price - S)/S.  Window 3, threshold 0.01, prices 100, 100, 100, 90: BUY.
C15_MeanReversionRule ==
    CalledPastColdStart("MeanReversionStrategy") =>
        LET S == Sum(FedWindow)
            dev == lookback_window * sig.tick.price - S
            n == threshold[1]
            d == threshold[2]
        IN /\ Len(FedWindow) = lookback_window
           /\ sig.ret = (IF dev * d < -(n * S) THEN 1
                         ELSE IF dev * d > n * S THEN -1 ELSE 0)
           /\ (/\ lookback_window = 3 /\ threshold = <<1, 100>>
               /\ FedWindow = <<100, 100, 90>>) => sig.ret = 1

\* C15 witness: window 3, threshold 0.01, the fourth or a later call for the
\* symbol, the last three prices 100, 100, 90, and BUY returned.
C15_Witness ==
    /\ CalledPastColdStart("MeanReversionStrategy")
    /\ lookback_window = 3 /\ threshold = <<1, 100>>
    /\ sig.nth = 4
    /\ FedWindow = <<100, 100, 90>>
    /\ sig.ret = 1

\* a deviation equal to the threshold was met on either side
DeviationAtThreshold ==
    /\ CalledPastColdStart("MeanReversionStrategy")
    /\ LET S == Sum(FedWindow)
           dev == lookback_window * sig.tick.price - S
       IN dev # 0 /\ Abs(dev) * threshold[2] = threshold[1] * S
    /\ sig.ret = 0

\* C16: with positive prices and a positive threshold, a call of
\* BreakoutStrategy.generate_signals whose price is the maximum or the minimum
\* of the full window (the price itself included) returns HOLD and publishes
\* no event.  Window 3, threshold 0.01, prices 100, 100, 100, 102: HOLD.
C16_BreakoutInclusiveWindowHolds ==
    (/\ CalledPastColdStart("BreakoutStrategy")
     /\ \/ sig.tick.price = Max(FedWindow)
        \/ sig.tick.price = Min(FedWindow)) =>
        (sig.ret = 0 /\ sig.notified = <<>>)

\* C16 witness: window 3, threshold 0.01, the fourth or a later call for the
\* symbol, the last three prices 100, 100, 102, an observer attached, HOLD.
C16_Witness ==
    /\ CalledPastColdStart("BreakoutStrategy")
    /\ lookback_window = 3 /\ threshold = <<1, 100>>
    /\ sig.nth = 4
    /\ FedWindow = <<100, 100, 102>>
    /\ sig.attached # <<>>
    /\ sig.ret = 0 /\ sig.notified = <<>>

\* C17: Breakout fires on a delayed basis: when the price of a symbol has
\* stayed at a new extreme (beyond high*(1+threshold) or low*(1-threshold) of
\* the window before it) for several consecutive ticks, as many as the window
\* is long, one of the calls of that stay has returned BUY or SELL.
C17_BreakoutFiresWhileExtremeStays ==
    (strategy_name = "BreakoutStrategy") =>
        \A s \in Symbols :
            (/\ extreme_run[s].n >= 2
             /\ extreme_run[s].n >= lookback_window) => extreme_run[s].fired

\* What holds instead of C17: no generate_signals call of a BreakoutStrategy
\* returns BUY or SELL or publishes an event.
BreakoutNeverFires ==
    (strategy_name = "BreakoutStrategy") => (sig.ret = 0 /\ sig.notified = <<>>)

\* the signal event an observer is handed by the last call
EventOfLastCall ==
    [timestamp |-> sig.tick.timestamp, symbol |-> sig.tick.symbol,
     price |-> sig.tick.price,
     signal_type |-> IF sig.ret = 1 THEN "BUY" ELSE "SELL",
     signal_value |-> sig.ret,
     strategy_name |-> strategy_name,
     action |-> IF sig.ret = 1 THEN "BUY" ELSE "SELL"]

\* C18: a generate_signals call that returns BUY or SELL notifies every
\* observer attached at the time exactly once (in the order of attachment)
\* with the tick's symbol, price and timestamp, the signal kind and the
\* strategy name; a call that returns HOLD notifies nobody; with no observer
\* attached nobody is notified and the signal is returned all the same.
C18_PublishesExactlyNonHold ==
    (sig.nth >= 1) =>
        /\ sig.ret \in {-1, 0, 1}
        /\ (sig.ret # 0) =>
              /\ Len(sig.notified) = Len(sig.attached)
              /\ \A i \in 1..Len(sig.attached) :
                    /\ sig.notified[i].observer = sig.attached[i]
                    /\ sig.notified[i].signal = EventOfLastCall
              /\ \A i, j \in 1..Len(sig.attached) :
                    (i # j) => (sig.attached[i] # sig.attached[j])
        /\ (sig.ret = 0) => sig.notified = <<>>

\* C18 witness: a SELL signal at timestamp 2 delivered to two attached
\* observers.
C18_Witness ==
    /\ sig.ret = -1
    /\ sig.tick.timestamp = 2
    /\ Len(sig.attached) = 2
    /\ Len(sig.notified) = 2

\* a BUY signal returned by a call while no observer was attached
SignalWithoutObserver ==
    /\ sig.ret = 1
    /\ sig.attached = <<>>
    /\ sig.notified = <<>>

\* C22: after every generate_signals call the stored price history of each
\* symbol fed so far has min(n, lookback_window) entries, n being the number
\* of calls for the symbol, and equals in feed order the most recent prices
\* fed for it (the oldest price is the one dropped); a symbol never fed has
\* no stored history.
C22_RollingWindow ==
    /\ lookback_window >= 1
    /\ \A s \in Symbols :
          IF fed[s] = 0 THEN s \notin DOMAIN price_history
          ELSE /\ s \in DOMAIN price_history
               /\ Len(price_history[s]) = Min2(fed[s], lookback_window)
               /\ price_history[s] = recent[s]

\* C22 witness: window 2, a third or later call for symbol A: the stored
\* history is the last two prices, 100 then 90.
C22_Witness ==
    /\ lookback_window = 2
    /\ sig.tick.symbol = "A" /\ sig.nth = 3
    /\ price_history["A"] = <<100, 90>>

\* the request of operation r is an execute_trade of the given side that the
\* business rule accepts
MustAccept(r, action) ==
    /\ r.op \in TradeOps
    /\ r.req.action = action
    /\ ~MustReject(r)

\* exactly one Trade, with the request's fields and the given cost, was
\* appended to the end of the trade log by operation r
OneTradeAppended(r, cost) ==
    /\ Len(trades) = Len(r.pre.trades) + 1
    /\ SubSeq(trades, 1, Len(r.pre.trades)) = r.pre.trades
    /\ trades[Len(trades)].symbol = r.req.symbol
    /\ trades[Len(trades)].action = r.req.action
    /\ trades[Len(trades)].price = r.req.price
    /\ trades[Len(trades)].quantity = r.req.quantity
    /\ trades[Len(trades)].cost = cost

\* C19: a BUY with cash >= price*quantity (equality included) is applied:
\* cash falls by price*quantity, the position exists, its quantity grows by
\* quantity, its total_cost by price*quantity, avg_cost = total_cost/quantity,
\* and one BUY Trade of cost +price*quantity is appended.  A first BUY of
\* 5 @ 10 gives quantity 5, avg_cost 10.
C19_BuyUpdateRule ==
    /\ MustAccept(last, "BUY") =>
        LET cost == last.req.price * last.req.quantity
            symbol == last.req.symbol
            before == PositionOf(last.pre.positions, symbol)
        IN /\ cash = last.pre.cash - cost
           /\ symbol \in DOMAIN positions
           /\ positions[symbol].quantity = before.quantity + last.req.quantity
           /\ positions[symbol].total_cost = RAdd(before.total_cost, RInt(cost))
           /\ positions[symbol].quantity > 0
           /\ positions[symbol].avg_cost =
                RDivInt(positions[symbol].total_cost, positions[symbol].quantity)
           /\ OneTradeAppended(last, cost)
    /\ update_position_buy(NewPosition, 10, 5) =
         [quantity |-> 5, total_cost |-> RInt(50), avg_cost |-> RInt(10)]

\* C20: a SELL of no more than is held is applied: cash rises by
\* price*quantity, the position quantity falls by the requested quantity;
\* when the new quantity is positive avg_cost is unchanged and
\* total_cost = avg_cost * new quantity, when it is 0 both are 0; and one
\* SELL Trade of cost -price*quantity is appended.
C20_SellUpdateRule ==
    MustAccept(last, "SELL") =>
        LET cost == last.req.price * last.req.quantity
            symbol == last.req.symbol
            before == PositionOf(last.pre.positions, symbol)
            after == PositionOf(positions, symbol)
        IN /\ cash = last.pre.cash + cost
           /\ after.quantity = before.quantity - last.req.quantity
           /\ after.quantity > 0 =>
                /\ after.avg_cost = before.avg_cost
                /\ after.total_cost = RMulInt(after.avg_cost, after.quantity)
           /\ after.quantity = 0 =>
                (after.avg_cost = RZero /\ after.total_cost = RZero)
           /\ OneTradeAppended(last, -cost)

\* C20 witness: a command-pattern SELL at price 1 of part of a position
\* bought at prices 1 and 3; the rest keeps the average cost 2.
C20_Witness ==
    /\ MustAccept(last, "SELL")
    /\ last.op = "execute_trade_cmd"
    /\ PositionOf(positions, last.req.symbol).quantity > 0
    /\ PositionOf(positions, last.req.symbol).avg_cost = RInt(2)
    /\ last.req.price = 1

---------------------------------------------------------------------------
\* C26: after any successful execute() of a command - its first, a redo, or
\* a call on the command object - the command's before_cash,
\* before_position_qty and before_avg_cost are the ledger's cash and the
\* quantity and avg_cost of the command's symbol as they were immediately
\* before that execute() (0 and 0.0 when the position was absent), not the
\* values of construction time.
C26_SnapshotTakenAtExecute ==
    (ExecSucceeded(last) /\ last.cmd >= 1) =>
        LET c == commands[last.cmd]
            before == PositionOf(last.pre.positions, c.symbol)
        IN /\ c.before_cash = last.pre.cash
           /\ c.before_position_qty = before.quantity
           /\ c.before_avg_cost = before.avg_cost

\* C26 witness: a command constructed and executed as the first operation,
\* undone, then re-executed by redo() after a direct-mode trade changed the
\* cash; it holds the cash of the moment of the redo.
C26_Witness ==
    /\ last.op = "redo" /\ last.ret = "True"
    /\ last2.op = "execute_trade" /\ last2.pre.cash # last.pre.cash
    /\ commands[last.cmd].timestamp = 1
    /\ commands[last.cmd].before_cash = last.pre.cash
    /\ commands[last.cmd].before_cash # InitialCapital

\* C27: when execute_command is handed a command whose execute() reports
\* failure, the invoker's history and cursor are the same as before the call
\* (so a redo that was available before is still available).
C27_RejectedSubmissionKeepsHistory ==
    (last.op \in {"execute_trade_cmd", "execute_command"} /\ last.ret = "False") =>
        (history = last.pre.history /\ current_index = last.pre.current_index)

RECURSIVE SumCost(_)
\* the sum of the cost field over a trade log
SumCost(ts) == IF ts = <<>> THEN 0 ELSE Head(ts).cost + SumCost(Tail(ts))

\* C28: in every state reached by execute_trade calls (both modes) and
\* CommandInvoker.undo()/redo(), cash = initial_capital - (sum of the cost
\* of all trades in the trade log).
C28_CashConservation ==
    (called \subseteq EngineOps) => cash = InitialCapital - SumCost(trades)

\* the operations of a ledger driven through the invoker only
InvokerOps == {"execute_trade_cmd", "execute_command", "undo", "redo"}

\* C30: when the ledger is driven only through
\* CommandInvoker.execute_command, undo() and redo():
\* -1 <= current_index <= len(history) - 1; the commands at indices
\* 0..current_index of the history are executed, those beyond it are not,
\* and no command outside that prefix is executed; the trade log has
\* current_index + 1 entries and its i-th entry is the trade of history[i].
C30_HistoryInvariant ==
    (called \subseteq InvokerOps) =>
        /\ -1 <= current_index /\ current_index <= Len(history) - 1
        /\ \A i \in 1..Len(history) :
              commands[history[i]].executed <=> (i <= current_index + 1)
        /\ \A id \in 1..Len(commands) :
              commands[id].executed =>
                 \E i \in 1..(current_index + 1) : history[i] = id
        /\ Len(trades) = current_index + 1
        /\ \A i \in 1..(current_index + 1) :
              LET c == commands[history[i]]
              IN trades[i] = Trade(c.timestamp, c.symbol, c.action, c.price,
                                   c.quantity, c.trade_uid)

\* C30 witness: two commands in the history, the cursor on the first (the
\* second undone), one trade in the log.
C30_Witness ==
    /\ called \subseteq InvokerOps
    /\ Len(history) = 2 /\ current_index = 0
    /\ commands[history[1]].executed /\ ~commands[history[2]].executed
    /\ Len(trades) = 1


\* C21: a position entry is created only by the first successful BUY of its
\* symbol, and once created it is never deleted by any operation of the
\* engine (execute, undo, redo, or starting another backtest run on the same
\* engine); after a full SELL it stays in the mapping with quantity 0.
C21_EntryNeverDeleted ==
    [][/\ DOMAIN positions \subseteq DOMAIN positions'
       /\ \A s \in DOMAIN positions' \ DOMAIN positions :
             /\ Len(trades') = Len(trades) + 1
             /\ trades'[Len(trades')].action = "BUY"
             /\ trades'[Len(trades')].symbol = s]_vars

RECURSIVE NetQuantity(_, _)
\* the quantities of the BUY trades of a symbol in a trade log minus those
\* of its SELL trades
NetQuantity(ts, symbol) ==
    IF ts = <<>> THEN 0
    ELSE (IF Head(ts).symbol # symbol THEN 0
          ELSE IF Head(ts).action = "BUY" THEN Head(ts).quantity
          ELSE 0 - Head(ts).quantity)
         + NetQuantity(Tail(ts), symbol)

\* C29: in every reachable state of an engine, including after several
\* backtest_strategy runs on the same engine and after undo/redo, the
\* quantity held for each symbol (0 when the entry is absent) equals the sum
\* of the quantities of that symbol's BUY trades in the trade log minus the
\* sum of the quantities of its SELL trades.
C29_ShareConservation ==
    \A s \in Symbols :
        PositionOf(positions, s).quantity = NetQuantity(trades, s)


\* the number of occurrences of an element in a sequence
Count(seq, x) == Len(SelectSeq(seq, LAMBDA y : y = x))

\* C23: backtest_strategy feeds the ticks of its symbol to the strategy in
\* non-decreasing timestamp order whatever their order in the input data,
\* feeds no tick of another symbol, and finishes each tick (signal
\* generation, signal event, trade execution or rejection, rejection event)
\* before the next tick is fed to the strategy.
C23_FeedsInTimestampOrder ==
    LET ticks == run.fed_ticks
    IN /\ \A i \in 1..(Len(ticks) - 1) :
             ticks[i].timestamp <= ticks[i + 1].timestamp
       /\ \A i \in 1..Len(ticks) :
             /\ ticks[i].symbol = run.symbol
             /\ Count(ticks, ticks[i]) <= Count(df, ticks[i])
       /\ (run.pc = "done") =>
             \A i \in 1..Len(df) :
                 (df[i].symbol = run.symbol) =>
                     Count(ticks, df[i]) = Count(df, df[i])
       /\ Len(ticks) = run.idx + (IF run.pc \in {"trade", "snapshot"} THEN 1 ELSE 0)
       /\ (run.pc = "feed" /\ ticks # <<>>) =>
             /\ sig.tick = ticks[Len(ticks)]
             /\ (run.signal \in {1, -1}) <=> (Len(run.attempts) = 1)

\* C23 witness: a finished run over a frame whose two rows of symbol A are in
\* decreasing timestamp order, with a row of symbol B between them.
C23_Witness ==
    /\ run.pc = "done" /\ run.symbol = "A"
    /\ Len(df) = 3
    /\ df[1].symbol = "A" /\ df[2].symbol = "B" /\ df[3].symbol = "A"
    /\ df[1].timestamp > df[3].timestamp
    /\ Len(run.fed_ticks) = 2

\* C24: in a backtest run each tick leads to at most one trade attempt: a BUY
\* signal submits a BUY of exactly 1 unit at the tick's price and timestamp,
\* a SELL signal submits a SELL of exactly 1 unit, and a HOLD signal submits
\* nothing, so a HOLD tick leaves cash, positions and the trade log unchanged
\* and the trade log grows by at most one entry per tick.
C24_OneUnitPerSignal ==
    (run.pc = "snapshot") =>
        LET submitted(action) ==
                /\ Len(run.attempts) = 1
                /\ run.attempts[1].timestamp = CurrentTick.timestamp
                /\ run.attempts[1].order =
                      [symbol |-> run.symbol, action |-> action,
                       price |-> CurrentTick.price, quantity |-> 1]
        IN /\ run.signal \in {1, -1, 0}
           /\ (run.signal = 1) => submitted("BUY")
           /\ (run.signal = -1) => submitted("SELL")
           /\ (run.signal = 0) =>
                 /\ run.attempts = <<>>
                 /\ cash = run.pre.cash
                 /\ positions = run.pre.positions
                 /\ trades = run.pre.trades
           /\ \/ trades = run.pre.trades
              \/ /\ Len(trades) = Len(run.pre.trades) + 1
                 /\ SubSeq(trades, 1, Len(run.pre.trades)) = run.pre.trades
                 /\ LET t == trades[Len(trades)]
                    IN /\ t.timestamp = CurrentTick.timestamp
                       /\ t.symbol = run.symbol
                       /\ t.action = (IF run.signal = 1 THEN "BUY" ELSE "SELL")
                       /\ t.price = CurrentTick.price
                       /\ t.quantity = 1

\* C24 witness: a tick with a SELL signal whose SELL of one unit was executed
\* and appended to the trade log (after an earlier BUY).
C24_Witness ==
    /\ run.pc = "snapshot" /\ run.signal = -1
    /\ Len(trades) = Len(run.pre.trades) + 1
    /\ trades[Len(trades)].action = "SELL"
    /\ \E i \in 1..Len(run.pre.trades) : trades[i].action = "BUY"

\* the indices below k of the ticks of a run of n ticks that get a snapshot
ExpectedSnapshots(k, n) ==
    SelectSeq([i \in 1..k |-> i - 1],
              LAMBDA i : i % SnapshotEvery = 0 \/ i = n - 1)

\* the equity curve of the current run follows the snapshot rule
SnapshotRule ==
    LET n == Len(run.symbol_data)
        expected == ExpectedSnapshots(run.idx, n)
    IN /\ run.snapshots = expected
       /\ Len(equity_curve) = run.curve0 + Len(expected)
       /\ \A j \in 1..Len(expected) :
             equity_curve[run.curve0 + j].timestamp =
                run.symbol_data[expected[j] + 1].timestamp
       /\ (run.pc = "done" /\ n > 0) =>
             equity_curve[Len(equity_curve)].timestamp =
                run.symbol_data[n].timestamp

\* C25: a backtest run over a finite, non-empty price sequence terminates,
\* and the equity curve it appends has one snapshot for each tick whose index
\* is a multiple of N (N = 1000) and one for the final tick, and none for any
\* other tick; the last snapshot appended carries the final tick's timestamp.
C25_TerminatesWithSnapshots ==
    /\ []SnapshotRule
    /\ (run.pc = "feed") ~> (run.pc = "done")

\* C25 witness: the run over the long frame has finished with snapshots of
\* the ticks 0, 1000 and 1001.
C25_Witness ==
    /\ run.pc = "done"
    /\ Len(run.symbol_data) = LongRows
    /\ run.snapshots = <<0, 1000, LongRows - 1>>
    /\ Len(equity_curve) = 3


\* the prices observed in a frame for a symbol at exactly a timestamp
Observed(frame, symbol, timestamp) ==
    {frame[i].price : i \in {j \in 1..Len(frame) :
                                /\ frame[j].symbol = symbol
                                /\ frame[j].timestamp = timestamp}}

RECURSIVE Weighted(_, _, _)
\* the sum over the symbols of quantity held * price looked up
Weighted(symbols, ps, price_lookup) ==
    IF symbols = {} THEN 0
    ELSE LET s == CHOOSE x \in symbols : TRUE
         IN ps[s].quantity * price_lookup[s]
            + Weighted(symbols \ {s}, ps, price_lookup)

\* C35: calculate_portfolio_value at a timestamp equals cash plus, over all
\* position entries, quantity times the symbol's observed price at exactly
\* that timestamp; a symbol with no observation at that timestamp contributes
\* 0, and the call changes no ledger state.
C35_Valuation ==
    valuation.called =>
        /\ Snapshot = valuation.pre
        /\ \E price_lookup \in [DOMAIN positions -> 0..3] :
              /\ \A s \in DOMAIN positions :
                    LET seen == Observed(valuation.df, s, valuation.timestamp)
                    IN IF seen = {} THEN price_lookup[s] = 0
                                    ELSE price_lookup[s] \in seen
              /\ valuation.value =
                    cash + Weighted(DOMAIN positions, positions, price_lookup)

\* C35 witness: shares of A and of B are held; the frame has a price of A at
\* the timestamp and a price of B at another timestamp only, so the value is
\* the cash plus the value of the shares of A.
C35_Witness ==
    /\ valuation.called
    /\ DOMAIN positions = {"A", "B"}
    /\ positions["A"].quantity = 2 /\ positions["B"].quantity = 1
    /\ valuation.timestamp = 2
    /\ Observed(valuation.df, "A", 2) = {3}
    /\ Observed(valuation.df, "B", 2) = {}
    /\ Observed(valuation.df, "B", 1) = {1}
    /\ valuation.value = cash + 6


\* C31: starting from the same cash, positions and trade log, execute_trade
\* with use_command_pattern=False and with use_command_pattern=True given the
\* same (timestamp, symbol, action, price, quantity) accept or reject the
\* same requests and leave identical cash, positions (quantity, avg_cost,
\* total_cost) and trade log, for every sequence of requests.
C31_PathsEquivalent ==
    [][(nops' = nops + 1 /\ last'.op \in {"execute_trade", "execute_trade_cmd"}) =>
          LET o == last'.req
              direct == DirectOutcome(o, nops + 1)
              command == CmdExecute(NewCommand(o, nops + 1))
          IN /\ direct.cash = command.cash
             /\ direct.positions = command.positions
             /\ direct.trades = command.trades
             /\ (Len(direct.trades) = Len(trades) + 1) <=> command.ok
             /\ cash' = direct.cash
             /\ positions' = direct.positions
             /\ trades' = direct.trades]_vars

\* C31 witness: shares bought by a direct call are sold by a call in command
\* mode, and the call before that one was rejected.
C31_Witness ==
    /\ last.op = "execute_trade_cmd" /\ last.ret = "True"
    /\ last.req.action = "SELL"
    /\ last2.op = "execute_trade" /\ last2.req.action = "BUY"
    /\ Len(last2.pre.trades) = 1 /\ last2.pre.trades[1].action = "BUY"
    /\ last.pre.trades = last2.pre.trades
    /\ Len(trades) = 2


\* in the ledger pre the command id is executed and another execution was
\* applied after it and not undone: the last trade of the log is not the one
\* the command appended
ExecutionOnTop(pre, id) ==
    /\ pre.commands[id].executed
    /\ pre.trades # <<>>
    /\ pre.trades[Len(pre.trades)].uid # pre.commands[id].trade_uid
    /\ \E i \in 1..Len(pre.trades) : pre.trades[i].uid = pre.commands[id].trade_uid

\* C32: an undo of a command that has another applied execution on top of it
\* (requested by executing an UndoOrderCommand that wraps it, or by calling
\* its undo() directly) reports failure and leaves cash, positions and the
\* trade log unchanged.
C32_UndoOnlyOfLatestExecution ==
    (/\ last.op \in {"cmd_undo", "undo_order_execute"}
     /\ ExecutionOnTop(last.pre, last.cmd)) =>
        /\ last.ret = "False"
        /\ cash = last.pre.cash
        /\ positions = last.pre.positions
        /\ trades = last.pre.trades


\* the signal a strategy of the given class, window w and threshold thr owes
\* to a symbol whose n-th price has just been fed, prices being the last
\* min(n, w) prices fed for that symbol, the current one included
SignalFromOwnPrices(name, w, thr, prices, n) ==
    LET price == prices[Len(prices)]
        S == Sum(prices)
        dev == w * price - S
    IN IF n < w THEN 0
       ELSE IF name = "MeanReversionStrategy"
            THEN (IF dev * thr[2] < -(thr[1] * S) THEN 1
                  ELSE IF dev * thr[2] > thr[1] * S THEN -1 ELSE 0)
            ELSE (IF price * thr[2] > Max(prices) * (thr[2] + thr[1]) THEN 1
                  ELSE IF price * thr[2] < Min(prices) * (thr[2] - thr[1]) THEN -1
                  ELSE 0)

\* C33: a generate_signals call for symbol A leaves the stored price window
\* of every other symbol unchanged, and the signal returned for a tick of
\* symbol A depends only on the sequence of prices previously fed for symbol
\* A, whatever ticks of other symbols are interleaved with them.
C33_PerSymbolIsolation ==
    [][(<<price_history, sig, fed, recent>>' # <<price_history, sig, fed, recent>>) =>
          LET a == sig'.tick.symbol
          IN /\ \A s \in Symbols \ {a} :
                   /\ (s \in DOMAIN price_history') <=> (s \in DOMAIN price_history)
                   /\ (s \in DOMAIN price_history) =>
                         price_history'[s] = price_history[s]
             /\ sig'.ret = SignalFromOwnPrices(strategy_name, lookback_window,
                                               threshold, recent'[a], fed'[a])]_vars

\* C33 witness: a MeanReversionStrategy of window 2 returned BUY for symbol A
\* on the prices 100, 90 of A while a price of symbol B is stored as well.
C33_Witness ==
    /\ strategy_name = "MeanReversionStrategy" /\ lookback_window = 2
    /\ sig.tick.symbol = "A" /\ sig.ret = 1
    /\ recent["A"] = <<100, 90>>
    /\ "B" \in DOMAIN price_history /\ price_history["B"] = <<100>>
    /\ price_history["A"] = <<100, 90>>


\* no caller is inside execute_trade
NoneInFlight == \A t \in Callers : callers[t].pc = "idle"

\* C34: execute_trade is a check-then-update that is not atomic.  As long as
\* every call has run to completion before the next one started, cash >= 0
\* holds, and between calls cash = initial_capital - (sum of the cost of the
\* trades in the log); a negative cash is reached only once calls have
\* overlapped (see the witness: two BUY calls both pass the cash check before
\* either decrements).
C34_CheckThenUpdate ==
    /\ ~overlapped => cash >= 0
    /\ (~overlapped /\ NoneInFlight) => cash = InitialCapital - SumCost(trades)
    /\ (~overlapped /\ NoneInFlight) =>
          \A s \in DOMAIN positions : positions[s].quantity >= 0

\* C34 witness: two BUY calls overlapped, both passed the cash check, both
\* decremented and appended their trade (no update was lost), and the cash
\* is negative.
C34_Witness ==
    /\ overlapped /\ NoneInFlight
    /\ Len(trades) = 2 /\ nops = 2
    /\ \A i \in 1..2 : trades[i].action = "BUY"
    /\ cash = InitialCapital - SumCost(trades)
    /\ cash < 0

=============================================================================
